---- MODULE Spec2Model ----
(***************************************************************************)
(* Model of mullvad-ping (src/script.ts): argument handling, the relay     *)
(* directory fetch, the candidate filter loop, the staggered probe tasks,  *)
(* Promise.all, the sort / slice ranking and the final report.             *)
(*                                                                         *)
(* Text is a sequence of one-character strings.  Latencies are fixed-point *)
(* numbers: the value v stands for v / Scale milliseconds.  Optional       *)
(* command-line arguments are <<>> (absent) or <<v>> (supplied).           *)
(***************************************************************************)
EXTENDS Integers, Sequences, FiniteSets, TLC

VARIABLES args, directory, pc, json, idx, lastSleep, pings, now, log,
          results, top, error

vars == <<args, directory, pc, json, idx, lastSleep, pings, now, log,
          results, top, error>>

----------------------------------------------------------------------------
(* Bounds of the model *)

MaxRelays == 3      \* longest relay directory of the pipeline specification
MaxTime == 3        \* clock ticks (of one stagger step each) the clock may advance
FracDigits == 1     \* fractional digits kept by the fixed-point latencies
RankRelays == 6     \* relays of the ranking specification
MaxText == 9        \* longest enumerated text of the parser specification

----------------------------------------------------------------------------
(* Generic helpers *)

RECURSIVE Pow10(_)
Pow10(n) == IF n = 0 THEN 1 ELSE 10 * Pow10(n - 1)

Scale == Pow10(FracDigits)

RECURSIVE Flatten(_)
Flatten(ss) == IF ss = <<>> THEN <<>> ELSE Head(ss) \o Flatten(Tail(ss))

Range(s) == {s[i] : i \in 1..Len(s)}

Min(a, b) == IF a <= b THEN a ELSE b

----------------------------------------------------------------------------
(* Text: the regular expression of parsePing and parseFloat *)

Digits == {"0", "1", "2", "3", "4", "5", "6", "7", "8", "9"}

DigitVal(c) ==
  CASE c = "0" -> 0 [] c = "1" -> 1 [] c = "2" -> 2 [] c = "3" -> 3
    [] c = "4" -> 4 [] c = "5" -> 5 [] c = "6" -> 6 [] c = "7" -> 7
    [] c = "8" -> 8 [] c = "9" -> 9

\* number of consecutive digits of s from position p on
RECURSIVE DigitRun(_, _)
DigitRun(s, p) ==
  IF p >= 1 /\ p <= Len(s) /\ s[p] \in Digits THEN 1 + DigitRun(s, p + 1) ELSE 0

\* value of the digit string s
RECURSIVE IntOf(_)
IntOf(s) == IF s = <<>> THEN 0 ELSE 10 * IntOf(SubSeq(s, 1, Len(s) - 1)) + DigitVal(s[Len(s)])

\* (?:.\d+)? tried at position p: the positions after the match, greedy first.
\* The dot is unescaped in the source, so it matches any character but a
\* line terminator.
GroupEnds(s, p) ==
  IF p <= Len(s) /\ s[p] # "\n"
  THEN LET m == DigitRun(s, p + 1) IN [j \in 1..m |-> p + 1 + (m - j + 1)]
  ELSE <<>>

\* \d+(?:.\d+)? at position p with k digits or fewer: the positions after the
\* match in the order a backtracking matcher tries them
RECURSIVE NumEndsFrom(_, _, _)
NumEndsFrom(s, p, k) ==
  IF k = 0 THEN <<>>
  ELSE GroupEnds(s, p + k) \o <<p + k>> \o NumEndsFrom(s, p, k - 1)

NumEnds(s, p) == NumEndsFrom(s, p, DigitRun(s, p))

\* n numbers separated by "/" at position p: the tuples of end positions, in
\* the matcher's order
RECURSIVE Quad(_, _, _)
Quad(s, p, n) ==
  LET ends == NumEnds(s, p) IN
  IF n = 1 THEN [j \in 1..Len(ends) |-> <<ends[j]>>]
  ELSE Flatten([j \in 1..Len(ends) |->
         LET e == ends[j] IN
         IF e <= Len(s) /\ s[e] = "/"
         THEN LET rest == Quad(s, e + 1, n - 1) IN
              [t \in 1..Len(rest) |-> <<e>> \o rest[t]]
         ELSE <<>>])

\* output.match(regex): <<>> for no match, else <<values[0], .., values[4]>>
RECURSIVE MatchFrom(_, _)
MatchFrom(s, p) ==
  IF p > Len(s) THEN <<>>
  ELSE LET q == Quad(s, p, 4) IN
       IF q = <<>> THEN MatchFrom(s, p + 1)
       ELSE LET e == q[1] IN
            << SubSeq(s, p, e[4] - 1),
               SubSeq(s, p, e[1] - 1),
               SubSeq(s, e[1] + 1, e[2] - 1),
               SubSeq(s, e[2] + 1, e[3] - 1),
               SubSeq(s, e[3] + 1, e[4] - 1) >>

match(output) == MatchFrom(output, 1)

NaN == -1

\* the first FracDigits digits of the fraction f, as an integer
FracOf(f) ==
  LET kept == SubSeq(f, 1, Min(Len(f), FracDigits)) IN
  IntOf(kept) * Pow10(FracDigits - Len(kept))

\* parseFloat of a text without sign or leading blanks: the longest prefix
\* digits [. digits] [e digits], NaN when there is no digit prefix
parseFloat(s) ==
  LET k == DigitRun(s, 1) IN
  IF k = 0 THEN NaN
  ELSE LET hasDot == k + 1 <= Len(s) /\ s[k + 1] = "."
           f == IF hasDot THEN DigitRun(s, k + 2) ELSE 0
           m == IF hasDot THEN k + 1 + f ELSE k
           mant == IntOf(SubSeq(s, 1, k)) * Scale
                     + (IF hasDot THEN FracOf(SubSeq(s, k + 2, k + 1 + f)) ELSE 0)
           x == IF m + 1 <= Len(s) /\ s[m + 1] \in {"e", "E"}
                THEN DigitRun(s, m + 2) ELSE 0
       IN mant * Pow10(IntOf(SubSeq(s, m + 2, m + 1 + x)))

----------------------------------------------------------------------------
(* Command-line arguments and the constants computed from them.  Numeric   *)
(* arguments are given in tenths (2 is 0.2, 30 is 3).                      *)

ArgScale == Pow10(1)

serverTypes == <<"openvpn", "bridge", "wireguard", "all">>
runTypes == <<"all", "ram", "disk">>

toLowerCase(s) ==
  CASE s = "CH" -> "ch" [] s = "SE" -> "se" [] s = "Se" -> "se"
    [] s = "RAM" -> "ram" [] s = "Disk" -> "disk" [] s = "ALL" -> "all"
    [] s = "WireGuard" -> "wireguard" [] s = "OpenVPN" -> "openvpn"
    [] OTHER -> s

\* parseInt of a non-negative number: the integer part
parseInt(v) == v \div ArgScale

\* never null: "ch" when the argument is absent
country == IF args.country = <<>> THEN <<"ch">> ELSE <<toLowerCase(args.country[1])>>

serverType == IF args.type = <<>> THEN "wireguard" ELSE toLowerCase(args.type[1])

interval ==
  LET v == IF args.interval = <<>> THEN 2 ELSE args.interval[1] IN
  IF v = 0 THEN 2 ELSE v

count ==
  LET v == parseInt(IF args.count = <<>> THEN 3 * ArgScale ELSE args.count[1]) IN
  IF v = 0 THEN 3 ELSE v

topN ==
  LET v == parseInt(IF args.top = <<>> THEN 5 * ArgScale ELSE args.top[1]) IN
  IF v = 0 THEN 5 ELSE v

portSpeed == parseInt(IF args.port_speed = <<>> THEN 0 ELSE args.port_speed[1])

runMode == IF args.run_mode = <<>> THEN "all" ELSE toLowerCase(args.run_mode[1])

ownedValid == args.owned = <<>> \/ args.owned[1] \in {"true", "false"}

\* <<>> is null
owned ==
  IF args.owned = <<>> THEN <<>>
  ELSE IF args.owned[1] = "true" THEN <<TRUE>> ELSE <<FALSE>>

provider == args.provider

----------------------------------------------------------------------------
(* Relay records *)

Relay(h, cc, cn, city, ip, speed, stboot, prov, own) ==
  [hostname |-> h, country_code |-> cc, country_name |-> cn, city_name |-> city,
   owned |-> own, provider |-> prov, ipv4_addr_in |-> ip,
   network_port_speed |-> speed, stboot |-> stboot, type |-> "wireguard"]

ch1 == Relay("ch-zrh-wg-001", "ch", "Switzerland", "Zurich", "193.32.127.66", 10, TRUE, "31173", TRUE)
ch2 == Relay("ch-zrh-wg-002", "ch", "Switzerland", "Zurich", "193.32.127.67", 1, FALSE, "M247", FALSE)
ch3 == Relay("ch-zrh-wg-003", "ch", "Switzerland", "Zurich", "193.32.127.68", 10, FALSE, "31173", TRUE)
se1 == Relay("se-got-wg-001", "se", "Sweden", "Gothenburg", "185.213.154.66", 10, TRUE, "M247", FALSE)

RelayPool == {ch1, ch2, ch3, se1}

\* the directories of at most n relays, no relay twice
Directories(pool, n) ==
  UNION {{d \in [1..k -> pool] : \A i, j \in 1..k : d[i] = d[j] => i = j} : k \in 0..n}

----------------------------------------------------------------------------
(* The candidate filter *)

\* checkRunMode, but with the two boot media exchanged
checkRunModeSwapped(stboot, mode) ==
  IF mode = "all" THEN TRUE
  ELSE IF mode = "ram" /\ stboot = FALSE THEN TRUE
  ELSE IF mode = "disk" /\ stboot = TRUE THEN TRUE
  ELSE FALSE

checkRunMode(stboot, mode) ==
  IF mode = "all" THEN TRUE
  ELSE IF mode = "ram" /\ stboot = TRUE THEN TRUE
  ELSE IF mode = "disk" /\ stboot = FALSE THEN TRUE
  ELSE FALSE

\* the condition of the scheduling loop, lines 199-205
candidate(server) ==
  /\ (country = <<>> \/ country[1] = server.country_code)
  /\ server.network_port_speed >= portSpeed
  /\ checkRunMode(server.stboot, runMode)
  /\ (provider = <<>> \/ provider[1] = server.provider)
  /\ (owned = <<>> \/ owned[1] = server.owned)

----------------------------------------------------------------------------
(* parsePing *)

Debug(m, h, t) == [level |-> "debug", msg |-> m, hostname |-> h, text |-> t]
Error(m, h, t) == [level |-> "error", msg |-> m, hostname |-> h, text |-> t]
Info(t) == [level |-> "info", msg |-> "", hostname |-> "", text |-> t]

\* parsePing, but the address field is filled with the hostname
parsePingWrongIp(output, server) ==
  LET values == match(output) IN
  IF values # <<>>
  THEN LET f == parseFloat(values[3]) IN
       << [hostname |-> server.hostname,
           city |-> server.city_name,
           country |-> server.country_name,
           type |-> server.type,
           ip |-> server.hostname,
           avg |-> IF f = NaN \/ f = 0 THEN 0 ELSE f,
           network_port_speed |-> server.network_port_speed] >>
  ELSE <<>>

\* parsePing, but a text without statistics counts as 0 ms
parsePingZero(output, server) ==
  LET values == match(output) IN
  << [hostname |-> server.hostname,
      city |-> server.city_name,
      country |-> server.country_name,
      type |-> server.type,
      ip |-> server.ipv4_addr_in,
      avg |-> IF values # <<>> /\ parseFloat(values[3]) # NaN
              THEN parseFloat(values[3]) ELSE 0,
      network_port_speed |-> server.network_port_speed] >>

\* the value parsePing returns: <<>> is null
parsePing(output, server) ==
  LET values == match(output) IN
  IF values # <<>>
  THEN LET f == parseFloat(values[3]) IN
       << [hostname |-> server.hostname,
           city |-> server.city_name,
           country |-> server.country_name,
           type |-> server.type,
           ip |-> server.ipv4_addr_in,
           avg |-> IF f = NaN \/ f = 0 THEN 0 ELSE f,
           network_port_speed |-> server.network_port_speed] >>
  ELSE <<>>

\* the line parsePing logs
parsePingLog(output, server) ==
  LET values == match(output) IN
  IF values # <<>>
  THEN Debug("Pinged", server.hostname, values[1])
  ELSE Error("no output match for", server.hostname, output)

----------------------------------------------------------------------------
(* What a ping process can print *)

OutSlow == <<"=", " ", "1", ".", "2", "/", "3", ".", "4", "/", "5", ".", "6", "/", "0", ".", "1", " ", "m", "s">>
OutFast == <<"0", ".", "9", "/", "1", "/", "2", "/", "0", ".", "1">>
OutLoss == <<"1", "0", "0", "%", " ", "l", "o", "s", "s">>

Stdouts == {OutSlow, OutFast, OutLoss}
Stderrs == {"ping: sendto: Network is unreachable"}

----------------------------------------------------------------------------
(* The program *)

NoArgs ==
  [country |-> <<>>, type |-> <<>>, interval |-> <<>>, count |-> <<>>,
   top |-> <<>>, port_speed |-> <<>>, run_mode |-> <<>>, owned |-> <<>>,
   provider |-> <<>>, list_countries |-> FALSE]

InitWith(argSet, directories) ==
  /\ args \in argSet
  /\ directory \in directories
  /\ pc = "start"
  /\ json = <<>>
  /\ idx = 1
  /\ lastSleep = 0
  /\ pings = <<>>
  /\ now = 0
  /\ log = <<>>
  /\ results = <<>>
  /\ top = <<>>
  /\ error = <<>>

\* lines 120-150: the constants and their validation
Validate ==
  /\ pc = "start"
  /\ IF serverType \notin Range(serverTypes)
     THEN pc' = "thrown" /\ error' = <<"Invalid type">>
     ELSE IF interval < 2
     THEN pc' = "thrown" /\ error' = <<"Minimum interval value is 0.2">>
     ELSE IF runMode \notin Range(runTypes)
     THEN pc' = "thrown" /\ error' = <<"Invalid run-mode">>
     ELSE IF ~ownedValid
     THEN pc' = "thrown" /\ error' = <<"Invalid value for owned, must be true or false">>
     ELSE pc' = "fetch" /\ error' = error
  /\ UNCHANGED <<args, directory, json, idx, lastSleep, pings, now, log, results, top>>

\* lines 154-158, 187, 195: the directory is fetched
Fetch ==
  /\ pc = "fetch"
  /\ json' = directory
  /\ log' = Append(log, Debug("Fetching currently available relays...", "", ""))
  /\ pc' = IF args.list_countries THEN "list" ELSE "loop"
  /\ UNCHANGED <<args, directory, idx, lastSleep, pings, now, results, top, error>>

\* the countries of js in the order of their first relay
RECURSIVE countriesOf(_)
countriesOf(js) ==
  IF js = <<>> THEN <<>>
  ELSE LET rest == countriesOf(SubSeq(js, 1, Len(js) - 1))
           e == js[Len(js)]
           c == <<e.country_code, e.country_name>>
       IN IF c \in Range(rest) THEN rest ELSE Append(rest, c)

\* lines 187-194
ListCountries ==
  /\ pc = "list"
  /\ log' = log \o [i \in 1..Len(countriesOf(json)) |-> Info(countriesOf(json)[i])]
  /\ pc' = "listed"
  /\ UNCHANGED <<args, directory, json, idx, lastSleep, pings, now, results, top, error>>

\* line 33: the stagger step in milliseconds
step == 10

\* lines 31-36 and 206-229: the task pushed for a candidate
task(server, thisSleep) ==
  [server |-> server,
   args |-> <<"-c", count, "-i", interval, server.ipv4_addr_in>>,
   thisSleep |-> thisSleep,
   armedAt |-> now,
   state |-> "sleeping",
   startedAt |-> 0,
   spawned |-> 0,
   stderr |-> "",
   stdout |-> <<>>,
   value |-> <<>>]

\* lines 198-231: one iteration of the scheduling loop
LoopStep ==
  /\ pc = "loop"
  /\ idx <= Len(json)
  /\ LET server == json[idx] IN
     IF candidate(server)
     THEN /\ lastSleep' = lastSleep + step
          /\ pings' = Append(pings, task(server, lastSleep + step))
          /\ log' = Append(log, Debug("sending ping to", "", server.ipv4_addr_in))
     ELSE UNCHANGED <<lastSleep, pings, log>>
  /\ idx' = idx + 1
  /\ UNCHANGED <<args, directory, pc, json, now, results, top, error>>

\* line 233: the loop is over, the program awaits Promise.all(pings)
LoopExit ==
  /\ pc = "loop"
  /\ idx > Len(json)
  /\ pc' = "await"
  /\ UNCHANGED <<args, directory, json, idx, lastSleep, pings, now, log, results, top, error>>

\* the clock advances by one stagger step
Tick ==
  /\ pc \in {"loop", "await"}
  /\ now < MaxTime * step
  /\ now' = now + step
  /\ UNCHANGED <<args, directory, pc, json, idx, lastSleep, pings, log, results, top, error>>

\* TimerFire, but a probe waits for the probe before it to settle
TimerFireSerial(i) ==
  /\ pc = "await"
  /\ pings[i].state = "sleeping"
  /\ now >= pings[i].armedAt + pings[i].thisSleep
  /\ i > 1 => pings[i - 1].state \in {"fulfilled", "rejected"}
  /\ pings' = [pings EXCEPT ![i].state = "running", ![i].startedAt = now,
                            ![i].spawned = @ + 1]
  /\ UNCHANGED <<args, directory, pc, json, idx, lastSleep, now, log, results, top, error>>

\* TimerFire, but the timer does not wait for its delay
TimerFireAtOnce(i) ==
  /\ pc = "await"
  /\ pings[i].state = "sleeping"
  /\ now >= pings[i].armedAt
  /\ pings' = [pings EXCEPT ![i].state = "running", ![i].startedAt = now,
                            ![i].spawned = @ + 1]
  /\ UNCHANGED <<args, directory, pc, json, idx, lastSleep, now, log, results, top, error>>

\* lines 35 and 223: the timer of task i fires and p.output() starts the process
TimerFire(i) ==
  /\ pc = "await"
  /\ pings[i].state = "sleeping"
  /\ now >= pings[i].armedAt + pings[i].thisSleep
  /\ pings' = [pings EXCEPT ![i].state = "running", ![i].startedAt = now,
                            ![i].spawned = @ + 1]
  /\ UNCHANGED <<args, directory, pc, json, idx, lastSleep, now, log, results, top, error>>

\* ProbeError, but the output is parsed in spite of the diagnostics
ProbeErrorParsed(i, stderr, stdout) ==
  /\ pc = "await"
  /\ pings[i].state = "running"
  /\ stderr # ""
  /\ pings' = [pings EXCEPT ![i].state = "fulfilled", ![i].stderr = stderr,
                            ![i].stdout = stdout,
                            ![i].value = parsePing(stdout, pings[i].server)]
  /\ log' = Append(log, parsePingLog(stdout, pings[i].server))
  /\ UNCHANGED <<args, directory, pc, json, idx, lastSleep, now, results, top, error>>

\* lines 224-226 and 233: the process of task i ends with diagnostics, whatever
\* it printed; the task throws before the output is decoded, Promise.all
\* rejects and the awaiting module throws
ProbeError(i, stderr, stdout) ==
  /\ pc = "await"
  /\ pings[i].state = "running"
  /\ stderr # ""
  /\ pings' = [pings EXCEPT ![i].state = "rejected", ![i].stderr = stderr,
                            ![i].stdout = stdout]
  /\ error' = <<stderr>>
  /\ pc' = "thrown"
  /\ UNCHANGED <<args, directory, json, idx, lastSleep, now, log, results, top>>

\* ProbeOutput, but a probe whose output does not parse is started again
ProbeOutputRetry(i, stdout) ==
  /\ pc = "await"
  /\ pings[i].state = "running"
  /\ pings' = IF parsePing(stdout, pings[i].server) = <<>>
              THEN [pings EXCEPT ![i].state = "sleeping"]
              ELSE [pings EXCEPT ![i].state = "fulfilled",
                                 ![i].stdout = stdout,
                                 ![i].value = parsePing(stdout, pings[i].server)]
  /\ log' = Append(log, parsePingLog(stdout, pings[i].server))
  /\ UNCHANGED <<args, directory, pc, json, idx, lastSleep, now, results, top, error>>

\* lines 224-228: the process of task i ends without diagnostics
ProbeOutput(i, stdout) ==
  /\ pc = "await"
  /\ pings[i].state = "running"
  /\ pings' = [pings EXCEPT ![i].state = "fulfilled",
                            ![i].stdout = stdout,
                            ![i].value = parsePing(stdout, pings[i].server)]
  /\ log' = Append(log, parsePingLog(stdout, pings[i].server))
  /\ UNCHANGED <<args, directory, pc, json, idx, lastSleep, now, results, top, error>>

\* line 233: the values of Promise.all, in the order of pings, without the nulls
RECURSIVE collect(_)
collect(ps) ==
  IF ps = <<>> THEN <<>>
  ELSE collect(SubSeq(ps, 1, Len(ps) - 1)) \o ps[Len(ps)].value

\* insert, but r goes before the elements that are equal
RECURSIVE insertBefore(_, _)
insertBefore(s, r) ==
  IF s = <<>> THEN <<r>>
  ELSE IF s[Len(s)].avg - r.avg < 0 THEN Append(s, r)
  ELSE Append(insertBefore(SubSeq(s, 1, Len(s) - 1), r), s[Len(s)])

\* r put into the sorted sequence s after the elements that are not greater
RECURSIVE insert(_, _)
insert(s, r) ==
  IF s = <<>> THEN <<r>>
  ELSE IF s[Len(s)].avg - r.avg <= 0 THEN Append(s, r)
  ELSE Append(insert(SubSeq(s, 1, Len(s) - 1), r), s[Len(s)])

\* lines 236-238: Array.prototype.sort with (a, b) => a.avg - b.avg, stable
RECURSIVE sort(_)
sort(rs) ==
  IF rs = <<>> THEN <<>>
  ELSE insert(sort(SubSeq(rs, 1, Len(rs) - 1)), rs[Len(rs)])

\* slice, but from the second element on
sliceFromOne(rs, n) == SubSeq(rs, 2, Min(n, Len(rs)))

\* Array.prototype.slice(0, n) for n >= 0
slice(rs, n) == SubSeq(rs, 1, Min(n, Len(rs)))

\* line 242
topOf(rs) == IF topN = 0 THEN rs ELSE slice(rs, topN)

\* reportLog, but the hostname printed is the one of the last entry
reportLogLast(t) ==
  IF Len(t) > 0
  THEN <<Debug("Top results:", "", Len(t))>>
         \o [i \in 1..Len(t) |-> Debug(" - ", t[i].hostname, t[i].avg)]
         \o <<Info(t[Len(t)].hostname)>>
  ELSE <<Error("No servers found", "", "")>>

\* lines 245-260
reportLog(t) ==
  IF Len(t) > 0
  THEN <<Debug("Top results:", "", Len(t))>>
         \o [i \in 1..Len(t) |-> Debug(" - ", t[i].hostname, t[i].avg)]
         \o <<Info(t[1].hostname)>>
  ELSE <<Error("No servers found", "", "")>>

\* Continue, but the truncation is applied to the catalog as well
ContinueCutsCatalog ==
  /\ pc = "await"
  /\ \A i \in 1..Len(pings) : pings[i].state = "fulfilled"
  /\ results' = sort(collect(pings))
  /\ top' = topOf(sort(collect(pings)))
  /\ json' = slice(json, topN)
  /\ log' = log \o <<Debug("got results", "", "")>> \o reportLog(topOf(sort(collect(pings))))
  /\ pc' = "done"
  /\ UNCHANGED <<args, directory, idx, lastSleep, pings, now, error>>

\* Continue, but an empty list is thrown as an error
ContinueThrows ==
  /\ pc = "await"
  /\ \A i \in 1..Len(pings) : pings[i].state = "fulfilled"
  /\ results' = sort(collect(pings))
  /\ top' = topOf(sort(collect(pings)))
  /\ IF collect(pings) = <<>>
     THEN /\ pc' = "thrown"
          /\ error' = <<"No servers found">>
          /\ log' = Append(log, Debug("got results", "", ""))
     ELSE /\ pc' = "done"
          /\ error' = error
          /\ log' = log \o <<Debug("got results", "", "")>>
                        \o reportLog(topOf(sort(collect(pings))))
  /\ UNCHANGED <<args, directory, json, idx, lastSleep, pings, now>>

\* lines 233-260: every task is fulfilled, the module resumes after the await
Continue ==
  /\ pc = "await"
  /\ \A i \in 1..Len(pings) : pings[i].state = "fulfilled"
  /\ results' = sort(collect(pings))
  /\ top' = topOf(sort(collect(pings)))
  /\ log' = log \o <<Debug("got results", "", "")>> \o reportLog(topOf(sort(collect(pings))))
  /\ pc' = "done"
  /\ UNCHANGED <<args, directory, json, idx, lastSleep, pings, now, error>>

Next ==
  \/ Validate
  \/ Fetch
  \/ ListCountries
  \/ LoopStep
  \/ LoopExit
  \/ Tick
  \/ \E i \in 1..Len(pings) : TimerFire(i)
  \/ \E i \in 1..Len(pings) : \E stderr \in Stderrs : \E stdout \in Stdouts :
       ProbeError(i, stderr, stdout)
  \/ \E i \in 1..Len(pings) : \E stdout \in Stdouts : ProbeOutput(i, stdout)
  \/ Continue

\* the pipeline: default arguments but the country, the top and the listing
PipelineArgs ==
  {[NoArgs EXCEPT !.country = c, !.top = t, !.list_countries = l] :
     c \in {<<>>, <<"SE">>}, t \in {<<>>, <<20>>}, l \in BOOLEAN}

\* the directories of the pipeline: at most n relays of cat, in the order of cat
Sublists(cat, n) ==
  {LET picked == SelectSeq([i \in 1..Len(cat) |-> i], LAMBDA i : i \in S)
   IN [k \in 1..Len(picked) |-> cat[picked[k]]] :
     S \in {T \in SUBSET (1..Len(cat)) : Cardinality(T) <= n}}

PipelineCatalog == <<ch2, se1, ch1, ch3>>

Init == InitWith(PipelineArgs, Sublists(PipelineCatalog, MaxRelays))

Spec == Init /\ [][Next]_vars

----------------------------------------------------------------------------
(* The filter alone: every criterion varies, the run stops at the await *)

FilterArgs ==
  {[NoArgs EXCEPT !.country = c, !.port_speed = s, !.run_mode = m,
                  !.provider = p, !.owned = o] :
     c \in {<<>>, <<"SE">>, <<"ch">>},
     s \in {<<>>, <<10>>, <<55>>},
     m \in {<<>>, <<"RAM">>, <<"disk">>, <<"usb">>},
     p \in {<<>>, <<"M247">>},
     o \in {<<>>, <<"true">>, <<"false">>}}

InitFilter == InitWith(FilterArgs, Directories(RelayPool, MaxRelays))

NextFilter ==
  \/ Validate
  \/ Fetch
  \/ LoopStep
  \/ LoopExit

SpecFilter == InitFilter /\ [][NextFilter]_vars

----------------------------------------------------------------------------
(* The ranking alone: RankRelays relays of the default country have been   *)
(* probed, each probe has ended without diagnostics, the module is about   *)
(* to resume after the await.                                              *)

RankHost(i) ==
  CASE i = 1 -> "ch-zrh-wg-101" [] i = 2 -> "ch-zrh-wg-102"
    [] i = 3 -> "ch-zrh-wg-103" [] i = 4 -> "ch-zrh-wg-104"
    [] i = 5 -> "ch-zrh-wg-105" [] i = 6 -> "ch-zrh-wg-106"
    [] i = 7 -> "ch-zrh-wg-107" [] i = 8 -> "ch-zrh-wg-108"

RankRelay(i) ==
  Relay(RankHost(i), "ch", "Switzerland", "Zurich", RankHost(i), 10, TRUE, "31173", TRUE)

RankArgs == {[NoArgs EXCEPT !.top = t] : t \in {<<>>, <<0>>, <<10>>, <<35>>, <<90>>}}

InitRank ==
  /\ args \in RankArgs
  /\ directory = [i \in 1..RankRelays |-> RankRelay(i)]
  /\ pc = "await"
  /\ json = directory
  /\ idx = RankRelays + 1
  /\ lastSleep = step * RankRelays
  /\ now = step * RankRelays
  /\ \E outs \in [1..RankRelays -> Stdouts] :
       /\ pings = [i \in 1..RankRelays |->
                     [task(json[i], step * i) EXCEPT
                        !.armedAt = 0, !.state = "fulfilled", !.startedAt = step * i,
                        !.spawned = 1,
                        !.stdout = outs[i], !.value = parsePing(outs[i], json[i])]]
       /\ log = <<Debug("Fetching currently available relays...", "", "")>>
                  \o [i \in 1..RankRelays |-> Debug("sending ping to", "", json[i].ipv4_addr_in)]
                  \o [i \in 1..RankRelays |-> parsePingLog(outs[i], json[i])]
  /\ results = <<>>
  /\ top = <<>>
  /\ error = <<>>

NextRank == Continue

SpecRank == InitRank /\ [][NextRank]_vars

----------------------------------------------------------------------------
(* The parser alone: one relay, its ping process is running and may print  *)
(* any of the texts.                                                       *)

Texts(alphabet, n) == UNION {[1..k -> alphabet] : k \in 0..n}

ParseTexts ==
  Texts({"1", "2", "/"}, MaxText) \cup Texts({"1", ".", "/"}, MaxText)
    \cup {OutSlow, OutFast, OutLoss,
          <<"r", "t", "t", " ", "1", "/", "2", "x", "3", "/", "4", "/", "5">>}

InitParse ==
  /\ args = NoArgs
  /\ directory = <<ch1>>
  /\ pc = "await"
  /\ json = directory
  /\ idx = 2
  /\ lastSleep = step
  /\ now = step
  /\ pings = <<[task(ch1, step) EXCEPT
                  !.armedAt = 0, !.state = "running", !.startedAt = step,
                  !.spawned = 1]>>
  /\ log = <<Debug("Fetching currently available relays...", "", ""),
             Debug("sending ping to", "", ch1.ipv4_addr_in)>>
  /\ results = <<>>
  /\ top = <<>>
  /\ error = <<>>

NextParse ==
  \/ pings[1].state = "running" /\ \E stdout \in ParseTexts : ProbeOutput(1, stdout)
  \/ Continue

SpecParse == InitParse /\ [][NextParse]_vars

----------------------------------------------------------------------------
(* The validation alone: the validated arguments vary, valid and invalid,  *)
(* the run stops at the await.                                             *)

ValidateArgs ==
  {[NoArgs EXCEPT !.type = t, !.interval = i, !.run_mode = m, !.owned = o] :
     t \in {<<>>, <<"OpenVPN">>, <<"udp">>},
     i \in {<<>>, <<0>>, <<1>>, <<2>>, <<10>>},
     m \in {<<>>, <<"usb">>},
     o \in {<<>>, <<"false">>, <<"yes">>}}

InitValidate == InitWith(ValidateArgs, Directories(RelayPool, MaxRelays))

SpecValidate == InitValidate /\ [][NextFilter]_vars

----------------------------------------------------------------------------
(* Properties *)

\* the await of line 233 is over, normally or with the error of a probe
awaitOver ==
  \/ pc = "done"
  \/ pc = "thrown" /\ \E i \in 1..Len(pings) : pings[i].state = "rejected"

measured(i) == pings[i].state = "fulfilled" /\ pings[i].value # <<>>

catalogIndex(h) == CHOOSE i \in 1..Len(json) : json[i].hostname = h

\* position in the log of the line parsePing wrote for the relay h
loggedAt(h) ==
  CHOOSE k \in 1..Len(log) :
    log[k].hostname = h /\ log[k].msg \in {"Pinged", "no output match for"}

\* C1: when the await on the probes is over, every selected relay has an
\* outcome, a Measurement exactly when its output was parsed and a Failure
\* otherwise
C1_EveryProbeHasOutcome ==
  awaitOver =>
    \A i \in 1..Len(pings) :
      /\ pings[i].state \in {"fulfilled", "rejected"}
      /\ pings[i].state = "fulfilled" =>
           (pings[i].value # <<>> <=> match(pings[i].stdout) # <<>>)

\* C2: a probe that reports diagnostic text never makes the invocation throw
C2_ProbeFailureNeverAborts ==
  \A i \in 1..Len(pings) : pings[i].state = "rejected" => pc # "thrown"

\* C3: control leaves the await only when no probe is still waiting for its
\* timer or for its ping process
C3_AwaitIsJoin ==
  awaitOver =>
    \A i \in 1..Len(pings) : pings[i].state \notin {"sleeping", "running"}

\* C4: every ranked entry has a latency of at least 0 and belongs to a probe
\* whose output matched the pattern; a probe without a match has the value
\* null and no ranked entry
C4_RankedAreParsed ==
  /\ \A k \in 1..Len(results) :
       /\ results[k].avg >= 0
       /\ \E i \in 1..Len(pings) :
            /\ pings[i].state = "fulfilled"
            /\ pings[i].server.hostname = results[k].hostname
            /\ match(pings[i].stdout) # <<>>
  /\ Range(top) \subseteq Range(results)
  /\ \A i \in 1..Len(pings) :
       pings[i].state = "fulfilled" /\ match(pings[i].stdout) = <<>> =>
         /\ pings[i].value = <<>>
         /\ \A k \in 1..Len(results) : results[k].hostname # pings[i].server.hostname

C4_Witness ==
  /\ pc = "done"
  /\ results # <<>>
  /\ \E i \in 1..Len(pings) : match(pings[i].stdout) = <<>>

\* C5: the ranked list holds the Measurements in non-decreasing latency, and
\* Measurements of equal latency in the order of their relays in the catalog
C5_StableRank ==
  pc = "done" =>
    /\ Len(results) = Cardinality({i \in 1..Len(pings) : measured(i)})
    /\ \A i \in 1..Len(pings) :
         measured(i) => \E k \in 1..Len(results) : results[k] = pings[i].value[1]
    /\ \A a, b \in 1..Len(results) :
         a < b =>
           \/ results[a].avg < results[b].avg
           \/ /\ results[a].avg = results[b].avg
              /\ catalogIndex(results[a].hostname) < catalogIndex(results[b].hostname)

\* two Measurements tie and the later of the catalog completed first
C5_Witness ==
  /\ pc = "done"
  /\ \E a, b \in 1..Len(results) :
       /\ a < b
       /\ results[a].avg = results[b].avg
       /\ loggedAt(results[b].hostname) < loggedAt(results[a].hostname)

\* the number of Measurements
measurements == Cardinality({i \in 1..Len(pings) : measured(i)})

\* the top-N the operator asked for, 5 when none was given
requestedTop == IF args.top = <<>> THEN 5 ELSE args.top[1] \div ArgScale

\* C6: for a requested top-N above 0 and M Measurements the reported list
\* has min(topN, M) entries, in ascending latency, and no Measurement left
\* out has a lower latency than one reported
C6_TopNLowest ==
  pc = "done" /\ requestedTop > 0 =>
    /\ Len(top) = Min(requestedTop, measurements)
    /\ \A a, b \in 1..Len(top) :
         a < b => top[a].avg <= top[b].avg /\ top[a].hostname # top[b].hostname
    /\ \A k \in 1..Len(top) :
         \E i \in 1..Len(pings) : measured(i) /\ pings[i].value[1] = top[k]
    /\ \A i \in 1..Len(pings) :
         measured(i) /\ pings[i].value[1] \notin Range(top) =>
           \A k \in 1..Len(top) : top[k].avg <= pings[i].value[1].avg

\* a supplied top-N cuts the list
C6_Witness ==
  /\ pc = "done"
  /\ args.top # <<>>
  /\ requestedTop > 0
  /\ requestedTop < measurements
  /\ Len(top) = requestedTop

\* C7: a requested top-N of 0 reports every Measurement
C7_TopZeroIsAll ==
  pc = "done" /\ args.top = <<0>> =>
    top = results /\ Len(top) = measurements

\* the five criteria, for the relay r
satisfies(r) ==
  /\ country = <<>> \/ country[1] = r.country_code
  /\ r.network_port_speed >= portSpeed
  /\ \/ runMode = "all"
     \/ runMode = "ram" /\ r.stboot
     \/ runMode = "disk" /\ ~r.stboot
  /\ provider = <<>> \/ provider[1] = r.provider
  /\ owned = <<>> \/ owned[1] = r.owned

scheduled == [i \in 1..Len(pings) |-> pings[i].server]

\* C8: the relays with a scheduled probe are the relays of the catalog that
\* satisfy the five criteria, in the order of the catalog
C8_ScheduledAreCandidates ==
  pc \in {"loop", "await"} => scheduled = SelectSeq(SubSeq(json, 1, idx - 1), satisfies)

\* the loop is over, it took some relays and left some
C8_Witness ==
  /\ pc = "await"
  /\ Len(pings) >= 2
  /\ Len(pings) < Len(json)
  /\ args.run_mode # <<>>

\* C9: without a country, provider or owned argument, with minimum port
\* speed 0 and run mode "all", every relay of the catalog gets a probe
C9_NoCriteriaSelectsAll ==
  /\ pc = "await"
  /\ args.country = <<>> /\ args.provider = <<>> /\ args.owned = <<>>
  /\ portSpeed = 0 /\ runMode = "all"
  => scheduled = json

\* C10: the N-th scheduled probe has the stagger offset N x step, the offsets
\* grow with N, and its ping process starts no earlier than that offset after
\* the probe was scheduled
C10_StaggerOffsets ==
  \A i \in 1..Len(pings) :
    /\ pings[i].thisSleep = i * 10
    /\ i > 1 => pings[i].thisSleep > pings[i - 1].thisSleep
    /\ pings[i].state # "sleeping" => pings[i].startedAt >= pings[i].armedAt + i * 10

\* the second probe, scheduled after the clock had advanced, has started
C10_Witness ==
  /\ Len(pings) >= 2
  /\ pings[2].armedAt > 0
  /\ pings[2].state # "sleeping"

\* the lines logger.info has written
infoLines == SelectSeq(log, LAMBDA l : l.level = "info")

\* i is a Measurement of the lowest latency, the first of them in the catalog
best(i) ==
  /\ measured(i)
  /\ \A j \in 1..Len(pings) :
       measured(j) /\ j # i =>
         \/ pings[i].value[1].avg < pings[j].value[1].avg
         \/ /\ pings[i].value[1].avg = pings[j].value[1].avg
            /\ catalogIndex(pings[i].server.hostname) < catalogIndex(pings[j].server.hostname)

\* C11: with a non-empty ranked list exactly one top hostname is emitted, the
\* one of the Measurement of the lowest latency (the first in the catalog on a
\* tie); with an empty ranked list none is emitted
C11_TopHostname ==
  ~args.list_countries =>
    IF pc = "done" /\ top # <<>>
    THEN /\ Len(infoLines) = 1
         /\ \E i \in 1..Len(pings) : best(i) /\ infoLines[1].text = pings[i].server.hostname
    ELSE infoLines = <<>>

\* several entries are reported and the last is slower than the first
C11_Witness ==
  /\ pc = "done"
  /\ Len(top) >= 2
  /\ top[1].avg < top[Len(top)].avg
  /\ Len(infoLines) = 1

\* C12: when no relay satisfies the criteria no probe is launched, the module
\* can go on after the await, and it ends with the report "No servers found"
\* and without an error
C12_EmptySelection ==
  pc \in {"await", "done", "thrown"} /\ json # <<>>
    /\ SelectSeq(json, satisfies) = <<>> =>
      /\ pings = <<>>
      /\ error = <<>>
      /\ pc # "thrown"
      /\ pc = "await" => ENABLED Continue
      /\ pc = "done" =>
           /\ top = <<>>
           /\ log[Len(log)] = Error("No servers found", "", "")

C12_Witness ==
  /\ pc = "done"
  /\ json # <<>>
  /\ pings = <<>>
  /\ log[Len(log)].msg = "No servers found"

\* s is a decimal number: digits, or digits "." digits
isDecimal(s) ==
  /\ s # <<>>
  /\ s[1] \in Digits /\ s[Len(s)] \in Digits
  /\ \A i \in 1..Len(s) : s[i] \in Digits \cup {"."}
  /\ Cardinality({i \in 1..Len(s) : s[i] = "."}) <= 1

\* the position of the first "/" of t from p on, Len(t) + 1 when there is none
slashFrom(t, p) ==
  IF \E i \in p..Len(t) : t[i] = "/"
  THEN CHOOSE i \in p..Len(t) : t[i] = "/" /\ \A j \in p..(i - 1) : t[j] # "/"
  ELSE Len(t) + 1

\* the text between the first and the second "/" after p
secondNumber(t, p) ==
  SubSeq(t, slashFrom(t, p) + 1, slashFrom(t, slashFrom(t, p) + 1) - 1)

\* a quadruple of decimal numbers separated by "/" starts at p
quadrupleAt(t, p) ==
  LET s1 == slashFrom(t, p)
      s2 == slashFrom(t, s1 + 1)
      s3 == slashFrom(t, s2 + 1)
  IN /\ s3 < Len(t)
     /\ isDecimal(SubSeq(t, p, s1 - 1))
     /\ isDecimal(SubSeq(t, s1 + 1, s2 - 1))
     /\ isDecimal(SubSeq(t, s2 + 1, s3 - 1))
     /\ t[s3 + 1] \in Digits

\* the fixed-point value of the decimal number s
decimalValue(s) ==
  LET dot == IF \E i \in 1..Len(s) : s[i] = "."
             THEN CHOOSE i \in 1..Len(s) : s[i] = "." ELSE Len(s) + 1
  IN IntOf(SubSeq(s, 1, dot - 1)) * Scale + FracOf(SubSeq(s, dot + 1, Len(s)))

\* C13: for a text with a quadruple of decimal numbers separated by "/" the
\* parser returns a Measurement whose avg is the second number of the first
\* such quadruple, for any other text it returns null
C13_ParsesFirstQuadruple ==
  \A i \in 1..Len(pings) :
    pings[i].state = "fulfilled" =>
      LET t == pings[i].stdout
          ps == {p \in 1..Len(t) : quadrupleAt(t, p)}
      IN IF ps # {}
         THEN /\ pings[i].value # <<>>
              /\ pings[i].value[1].avg =
                   decimalValue(secondNumber(t, CHOOSE p \in ps : \A q \in ps : p <= q))
         ELSE pings[i].value = <<>>

\* the arguments as given break a rule of the validation
invalidInput ==
  \/ args.type # <<>> /\ toLowerCase(args.type[1]) \notin {"openvpn", "bridge", "wireguard", "all"}
  \/ args.run_mode # <<>> /\ toLowerCase(args.run_mode[1]) \notin {"all", "ram", "disk"}
  \/ args.owned # <<>> /\ args.owned[1] \notin {"true", "false"}
  \/ args.interval # <<>> /\ args.interval[1] < 2

\* C14: with an invalid relay type, run-mode or owned value, or an interval
\* below 0.2, the invocation aborts before the directory is fetched and before
\* any probe is scheduled; no probe has an interval below 0.2
C14_InvalidInputAborts ==
  /\ invalidInput => pc \in {"start", "thrown"} /\ json = <<>> /\ pings = <<>> /\ log = <<>>
  /\ \A i \in 1..Len(pings) : pings[i].args[4] >= 2

\* C15: every timer is armed before any probe starts, and a timer whose
\* delay has passed can fire whatever the state of the other probes
C15_TimersIndependent ==
  /\ (\E i \in 1..Len(pings) : pings[i].state # "sleeping") =>
       pc # "loop" /\ Len(pings) = Len(SelectSeq(json, satisfies))
  /\ pc = "await" =>
       \A i \in 1..Len(pings) :
         pings[i].state = "sleeping" /\ now >= pings[i].armedAt + pings[i].thisSleep =>
           ENABLED TimerFire(i)

\* the processes of the first and of the second probe run at the same time
C15_Witness ==
  /\ Len(pings) >= 2
  /\ pings[1].state = "running"
  /\ pings[2].state = "running"

\* parsePing was called for the relay h
parsed(h) ==
  \E k \in 1..Len(log) :
    log[k].msg \in {"Pinged", "no output match for"} /\ log[k].hostname = h

\* C16: a probe with diagnostic text has no Measurement and no ranked entry,
\* and the parser is not called for it, whatever its output
C16_DiagnosticsAreFailures ==
  \A i \in 1..Len(pings) :
    pings[i].stderr # "" =>
      /\ pings[i].value = <<>>
      /\ ~parsed(pings[i].server.hostname)
      /\ \A k \in 1..Len(results) : results[k].hostname # pings[i].server.hostname
      /\ \A k \in 1..Len(top) : top[k].hostname # pings[i].server.hostname

\* a probe ended with diagnostic text and an output that has the statistics
C16_Witness ==
  \E i \in 1..Len(pings) :
    pings[i].stderr # "" /\ match(pings[i].stdout) # <<>>

\* C17: every failed probe has an error line with the hostname of its relay
\* and the raw text, and a run that ends ranks every Measurement
C17_FailuresReported ==
  /\ \A i \in 1..Len(pings) :
       /\ pings[i].state = "rejected" =>
            \E k \in 1..Len(log) :
              /\ log[k].level = "error"
              /\ log[k].hostname = pings[i].server.hostname
              /\ log[k].text = pings[i].stderr
       /\ pings[i].state = "fulfilled" /\ pings[i].value = <<>> =>
            \E k \in 1..Len(log) :
              /\ log[k].level = "error"
              /\ log[k].hostname = pings[i].server.hostname
              /\ log[k].text = pings[i].stdout
  /\ pc = "done" => Len(results) = measurements

\* C18: the ping process of a scheduled relay is started at most once, and no
\* relay is scheduled twice
C18_NoRetry ==
  /\ \A i \in 1..Len(pings) :
       /\ pings[i].spawned <= 1
       /\ pings[i].state # "sleeping" => pings[i].spawned = 1
  /\ \A i, j \in 1..Len(pings) :
       pings[i].server.hostname = pings[j].server.hostname => i = j

\* the run ended and a probe whose output did not parse was started once
C18_Witness ==
  /\ pc = "done"
  /\ \E i \in 1..Len(pings) :
       pings[i].state = "fulfilled" /\ pings[i].value = <<>> /\ pings[i].spawned = 1

\* C19: every reported entry belongs to one relay of the catalog that
\* satisfies the criteria and whose probe ended without diagnostics and with
\* an output that parses; it has the hostname, address, type and port speed
\* of that relay, and no relay is reported twice
C19_ReportedAreRelays ==
  /\ \A k \in 1..Len(top) :
       \E c \in 1..Len(json) :
         /\ satisfies(json[c])
         /\ top[k].hostname = json[c].hostname
         /\ top[k].ip = json[c].ipv4_addr_in
         /\ top[k].type = json[c].type
         /\ top[k].network_port_speed = json[c].network_port_speed
         /\ \E i \in 1..Len(pings) :
              /\ pings[i].server = json[c]
              /\ pings[i].state = "fulfilled"
              /\ pings[i].stderr = ""
              /\ match(pings[i].stdout) # <<>>
  /\ \A a, b \in 1..Len(top) : top[a].hostname = top[b].hostname => a = b

\* several relays are reported, fewer than the catalog has
C19_Witness ==
  /\ pc = "done"
  /\ Len(top) >= 2
  /\ Len(top) < Len(json)

\* C20: once fetched, the catalog never changes
C20_CatalogUnchanged ==
  [][pc \notin {"start", "fetch"} => json' = json]_vars

\* the run ended with a ranking cut short and in another order than the
\* catalog, and the catalog is what was fetched
C20_Witness ==
  /\ pc = "done"
  /\ json = directory
  /\ Len(top) < Len(results)
  /\ \E a, b \in 1..Len(results) :
       a < b /\ catalogIndex(results[a].hostname) > catalogIndex(results[b].hostname)

====
